---- MODULE Spec2Model ----
(***************************************************************************)
(* Hermit: an interactive shell.  The model covers the session loop        *)
(* (Shell::run), the statement splitter, the tokenizer, the operator       *)
(* scanners, the dispatcher and the process orchestrator (ExternalCommand). *)
(*                                                                         *)
(* A string is a sequence of one-character strings; a token, a statement   *)
(* and a raw line are such sequences.                                      *)
(***************************************************************************)
EXTENDS Integers, Sequences, FiniteSets, TLC

VARIABLES
    pc,             \* where the shell is: Typed, Reading, Dispatching, Spawning, Waiting, Executed, Exited, Failed, Panicked
    lastRead,       \* outcome of the last readline: none, line, interrupt, error, eof
    line,           \* the raw line read last
    history,        \* editor history: the raw lines, in order
    history_file,   \* lines persisted to the history file
    input,          \* statements of the current line not yet dispatched
    parts,          \* tokens of the statement being dispatched
    current_dir,    \* Shell.current_dir
    os_cwd,         \* the working directory of the shell process in the OS
    env_HOME,       \* value of HOME, <<>> when unset
    mode,           \* how the current statement is executed: none, pipeline, redirect, external, builtin
    pipeline,       \* the stages handed to ExternalCommand: <<[cmd, args]>>
    redirect,       \* redirect target of the current statement, <<>> when none
    processes,      \* children spawned for the current statement
    pipes,          \* inter-stage pipes created for the current statement
    previous_pipe,  \* pipe whose read end the shell holds, 0 when none
    workload,       \* units of output program i writes before it finishes
    result,         \* result of executing the current statement
    stderr,         \* what the session loop printed for the current statement
    invoked,        \* name of the builtin handler run for the current statement, <<>> when none
    leaked,         \* children of earlier statements never waited on
    nlines,         \* lines read so far
    files,          \* the files written by redirects: path -> content, in units
    terminal,       \* units the children have written to the terminal
    Flags,          \* a Flags object: [flags, values]
    value_flags,    \* the flags that take a value in the call that parses parts
    context         \* the Command Context of the registry set up for the current statement

vars == <<pc, lastRead, line, history, history_file, input, parts, current_dir,
          os_cwd, env_HOME, mode, pipeline, redirect, processes, pipes,
          previous_pipe, workload, result, stderr, invoked, leaked, nlines,
          files, terminal, Flags, value_flags, context>>

(***************************************************************************)
(* Bounds of the model.                                                    *)
(***************************************************************************)
MaxLines == 2       \* lines read in one session
MaxStages == 3      \* stages of a pipeline handed directly to execute_pipeline
MaxOut == 2         \* units a stage writes
PipeCap == 1        \* units a pipe buffers before a writer blocks
MaxLen == 5         \* characters of a line given to the splitter and the tokenizer
MaxToks == 4        \* tokens of a statement given to the dispatcher
MaxArgs == 3        \* arguments given to the flag parser

(***************************************************************************)
(* Characters and words.                                                   *)
(***************************************************************************)
SPACE == " "
TAB == "\t"
QUOTE == "\""
HASH == "#"
SEMI == ";"
PIPE == "|"
GT == ">"
TILDE == "~"

W_exit == <<"e", "x", "i", "t">>
W_echo == <<"e", "c", "h", "o">>
W_cd == <<"c", "d">>
W_ls == <<"l", "s">>
W_pwd == <<"p", "w", "d">>
W_history == <<"h", "i", "s", "t", "o", "r", "y">>
W_type == <<"t", "y", "p", "e">>
W_cat == <<"c", "a", "t">>
W_x == <<"x">>
W_f == <<"f">>
W_flag == <<"-", "a">>

IsWhitespace(c) == c \in {SPACE, TAB}

RECURSIVE Join(_, _)
Join(ss, sep) ==
    IF ss = <<>> THEN <<>>
    ELSE IF Len(ss) = 1 THEN ss[1]
    ELSE ss[1] \o sep \o Join(Tail(ss), sep)

Contains(s, x) == \E i \in 1..Len(s) : s[i] = x

\* index of the first element equal to x, 0 when there is none
Position(s, x) ==
    IF Contains(s, x) THEN CHOOSE i \in 1..Len(s) : s[i] = x /\ \A j \in 1..(i - 1) : s[j] # x
    ELSE 0

\* str::trim
trim(s) ==
    LET keep == {i \in 1..Len(s) : ~IsWhitespace(s[i])}
    IN  IF keep = {} THEN <<>>
        ELSE LET lo == CHOOSE i \in keep : \A j \in keep : i <= j
                 hi == CHOOSE i \in keep : \A j \in keep : j <= i
             IN  SubSeq(s, lo, hi)

\* str::split(c): the fragments between occurrences of c, empty ones included
RECURSIVE split(_, _)
split(s, c) ==
    LET p == Position(s, c)
    IN  IF p = 0 THEN <<s>>
        ELSE <<SubSeq(s, 1, p - 1)>> \o split(SubSeq(s, p + 1, Len(s)), c)

SelectNonEmpty(ss) == SelectSeq(ss, LAMBDA f : f # <<>>)

(***************************************************************************)
(* Statement splitter: Shell::transform_input.                             *)
(***************************************************************************)
\* mutant of transform_input: empty fragments are not filtered out
transform_input_KeepsEmpty(in) ==
    LET transformed == trim(split(in, HASH)[1])
        frags == split(transformed, SEMI)
    IN  [i \in 1..Len(frags) |-> trim(frags[i])]

\* mutant of transform_input: a `#` between double quotes does not start a comment
transform_input_KeepsQuotedHash(in) ==
    LET hs == {i \in 1..Len(in) :
                  in[i] = HASH /\ Cardinality({j \in 1..(i - 1) : in[j] = QUOTE}) % 2 = 0}
        cut == IF hs = {} THEN Len(in) ELSE (CHOOSE i \in hs : \A j \in hs : i <= j) - 1
        frags == split(trim(SubSeq(in, 1, cut)), SEMI)
    IN  SelectNonEmpty([i \in 1..Len(frags) |-> trim(frags[i])])

transform_input(in) ==
    LET transformed == trim(split(in, HASH)[1])
        frags == split(transformed, SEMI)
    IN  SelectNonEmpty([i \in 1..Len(frags) |-> trim(frags[i])])

(***************************************************************************)
(* Tokenizer: Shell::parse_args.                                           *)
(***************************************************************************)
\* mutant of parse_args_loop: a quote toggles the quoted state and stays in the token
RECURSIVE parse_args_loop_KeepsQuotes(_, _, _, _, _)
parse_args_loop_KeepsQuotes(in, i, ps, current_part, in_quotes) ==
    IF i > Len(in)
    THEN IF current_part # <<>> THEN Append(ps, current_part) ELSE ps
    ELSE LET c == in[i]
         IN  IF c = QUOTE
             THEN parse_args_loop_KeepsQuotes(in, i + 1, ps, Append(current_part, c),
                                              ~in_quotes)
             ELSE IF c = SPACE /\ ~in_quotes
             THEN IF current_part # <<>>
                  THEN parse_args_loop_KeepsQuotes(in, i + 1, Append(ps, current_part), <<>>,
                                                   in_quotes)
                  ELSE parse_args_loop_KeepsQuotes(in, i + 1, ps, current_part, in_quotes)
             ELSE parse_args_loop_KeepsQuotes(in, i + 1, ps, Append(current_part, c),
                                              in_quotes)

RECURSIVE parse_args_loop(_, _, _, _, _)
parse_args_loop(in, i, ps, current_part, in_quotes) ==
    IF i > Len(in)
    THEN IF current_part # <<>> THEN Append(ps, current_part) ELSE ps
    ELSE LET c == in[i]
         IN  IF c = QUOTE
             THEN parse_args_loop(in, i + 1, ps, current_part, ~in_quotes)
             ELSE IF c = SPACE /\ ~in_quotes
             THEN IF current_part # <<>>
                  THEN parse_args_loop(in, i + 1, Append(ps, current_part), <<>>, in_quotes)
                  ELSE parse_args_loop(in, i + 1, ps, current_part, in_quotes)
             ELSE parse_args_loop(in, i + 1, ps, Append(current_part, c), in_quotes)

\* mutant of parse_args: quotes are stripped first, then every space splits
parse_args_SplitsQuoted(in) ==
    SelectNonEmpty(split(SelectSeq(in, LAMBDA c : c # QUOTE), SPACE))

\* mutant of parse_args: the part collected last is not pushed after the loop
parse_args_ForgetsLast(in) ==
    LET r == parse_args_loop(in, 1, <<>>, <<>>, FALSE)
    IN  IF in # <<>> /\ in[Len(in)] \notin {SPACE, QUOTE} /\ r # <<>>
        THEN SubSeq(r, 1, Len(r) - 1) ELSE r

parse_args(in) == parse_args_loop(in, 1, <<>>, <<>>, FALSE)

(***************************************************************************)
(* Shell::expand_tilde.                                                    *)
(***************************************************************************)
expand_tilde(path, home) ==
    IF path # <<>> /\ path[1] = TILDE /\ home # <<>>
    THEN home \o Tail(path)
    ELSE path

(***************************************************************************)
(* Operator scanners: Shell::try_parse_pipeline, Shell::try_parse_redirects.*)
(***************************************************************************)
Stage(cmd, args) == [cmd |-> cmd, args |-> args]
StageOf(toks) == Stage(toks[1], Tail(toks))

RECURSIVE pipeline_loop(_, _, _, _)
pipeline_loop(commands, i, pl, current_cmd) ==
    IF i > Len(commands)
    THEN IF current_cmd # <<>> THEN Append(pl, StageOf(current_cmd)) ELSE pl
    ELSE IF commands[i] = <<PIPE>>
         THEN IF current_cmd # <<>>
              THEN pipeline_loop(commands, i + 1, Append(pl, StageOf(current_cmd)), <<>>)
              ELSE pipeline_loop(commands, i + 1, pl, current_cmd)
         ELSE pipeline_loop(commands, i + 1, pl, Append(current_cmd, commands[i]))

\* mutant of try_parse_pipeline: a `|` with nothing before it still emits a stage
try_parse_pipeline_KeepsEmptyRuns(command, args) ==
    LET commands == <<command>> \o args
        runs == split(commands, <<PIPE>>)
    IN  IF ~Contains(commands, <<PIPE>>)
        THEN [some |-> FALSE, pipeline |-> <<>>]
        ELSE [some |-> TRUE,
              pipeline |-> [i \in 1..Len(runs) |->
                               IF runs[i] = <<>> THEN Stage(<<>>, <<>>) ELSE StageOf(runs[i])]]

\* [some |-> FALSE] is None
try_parse_pipeline(command, args) ==
    LET commands == <<command>> \o args
    IN  IF ~Contains(commands, <<PIPE>>)
        THEN [some |-> FALSE, pipeline |-> <<>>]
        ELSE [some |-> TRUE, pipeline |-> pipeline_loop(commands, 1, <<>>, <<>>)]

\* mutant of try_parse_redirects: the last `>` is taken
try_parse_redirects_LastGT(command, args) ==
    LET commands == <<command>> \o args
        gts == {i \in 1..Len(commands) : commands[i] = <<GT>>}
        pos == IF gts = {} THEN 0 ELSE CHOOSE i \in gts : \A j \in gts : j <= i
    IN  IF pos # 0 /\ pos < Len(commands)
        THEN [some |-> TRUE, cmd |-> commands[1],
              args |-> IF pos > 2 THEN SubSeq(commands, 2, pos - 1) ELSE <<>>,
              output |-> commands[pos + 1]]
        ELSE [some |-> FALSE, cmd |-> <<>>, args |-> <<>>, output |-> <<>>]

try_parse_redirects(command, args) ==
    LET commands == <<command>> \o args
        pos == Position(commands, <<GT>>)     \* 1-based; the code's pos is pos - 1
    IN  IF pos # 0 /\ pos < Len(commands)
        THEN [some |-> TRUE, cmd |-> commands[1],
              args |-> IF pos > 2 THEN SubSeq(commands, 2, pos - 1) ELSE <<>>,
              output |-> commands[pos + 1]]
        ELSE [some |-> FALSE, cmd |-> <<>>, args |-> <<>>, output |-> <<>>]

(***************************************************************************)
(* Flags (core/flags.rs): parsing and the operations on a Flags object.    *)
(***************************************************************************)
\* a Flags object is [flags, values]: a HashSet<char> and a HashMap<char, String>
NoValues == [c \in {} |-> <<>>]
Flags_default == [flags |-> {}, values |-> NoValues]

\* HashMap::insert
values_insert(values, c, v) ==
    [x \in DOMAIN values \cup {c} |-> IF x = c THEN v ELSE values[x]]

\* HashMap::remove
values_remove(values, c) == [x \in DOMAIN values \ {c} |-> values[x]]

\* mutant of flag_chars_loop: only the first character after the `-` is a flag
RECURSIVE flag_chars_loop_FirstOnly(_, _, _, _, _, _, _)
flag_chars_loop_FirstOnly(args, vf, cs, j, i, flags, values) ==
    IF j > 1 THEN [tag |-> "Ok", i |-> i, flags |-> flags, values |-> values]
    ELSE IF cs[j] \in flags
    THEN [tag |-> "DuplicateFlag", i |-> i, flags |-> flags, values |-> values]
    ELSE IF cs[j] \in vf
    THEN IF i + 1 > Len(args)
         THEN [tag |-> "MissingValue", i |-> i + 1, flags |-> flags, values |-> values]
         ELSE flag_chars_loop_FirstOnly(args, vf, cs, j + 1, i + 1, flags \cup {cs[j]},
                                        values_insert(values, cs[j], args[i + 1]))
    ELSE flag_chars_loop_FirstOnly(args, vf, cs, j + 1, i, flags \cup {cs[j]}, values)

\* `for c in flag_chars.chars()` on the characters cs of args[i], from the j-th on:
\* a flag of vf takes the next argument as its value
RECURSIVE flag_chars_loop(_, _, _, _, _, _, _)
flag_chars_loop(args, vf, cs, j, i, flags, values) ==
    IF j > Len(cs) THEN [tag |-> "Ok", i |-> i, flags |-> flags, values |-> values]
    ELSE IF cs[j] \in flags
    THEN [tag |-> "DuplicateFlag", i |-> i, flags |-> flags, values |-> values]
    ELSE IF cs[j] \in vf
    THEN IF i + 1 > Len(args)
         THEN [tag |-> "MissingValue", i |-> i + 1, flags |-> flags, values |-> values]
         ELSE flag_chars_loop(args, vf, cs, j + 1, i + 1, flags \cup {cs[j]},
                              values_insert(values, cs[j], args[i + 1]))
    ELSE flag_chars_loop(args, vf, cs, j + 1, i, flags \cup {cs[j]}, values)

\* `while i < args.len()`
RECURSIVE with_value_flags_loop(_, _, _, _, _)
with_value_flags_loop(args, vf, i, flags, values) ==
    IF i > Len(args) THEN [tag |-> "Ok", i |-> i, flags |-> flags, values |-> values]
    ELSE LET arg == args[i]
         IN  IF arg # <<>> /\ arg[1] = "-"
             THEN IF Tail(arg) = <<>>
                  THEN [tag |-> "InvalidFormat", i |-> i, flags |-> flags, values |-> values]
                  ELSE LET r == flag_chars_loop(args, vf, Tail(arg), 1, i, flags, values)
                       IN  IF r.tag # "Ok" THEN r
                           ELSE with_value_flags_loop(args, vf, r.i + 1, r.flags, r.values)
             ELSE with_value_flags_loop(args, vf, i + 1, flags, values)

\* Flags::with_value_flags: [tag, flags, values]
with_value_flags(args, vf) == with_value_flags_loop(args, vf, 1, {}, NoValues)

\* Flags::new
Flags_new(args) == with_value_flags(args, {})

\* Flags::has_flag
has_flag(f, flag) == flag \in f.flags

\* Flags::get_value: <<>> is None, <<v>> is Some(v)
get_value(f, flag) == IF flag \in DOMAIN f.values THEN <<f.values[flag]>> ELSE <<>>

\* Flags::len
len(f) == Cardinality(f.flags)

(***************************************************************************)
(* The environment: what the OS holds.                                     *)
(***************************************************************************)
Deleted == <<"(deleted)">>          \* the working directory has been unlinked
StartDir == <<"/", "w">>
HomeDir == <<"/", "h">>
RootDir == <<"/">>
ExistingDirs == {StartDir, HomeDir, RootDir}
Executables == {W_ls, W_echo, W_cat}   \* names that spawn; every other name is not found

\* the file system as far as redirects go: no file yet; OpenOptions
\* create(true).write(true).truncate(true) on a path; a write to an open file
NoFiles == [p \in {} |-> <<>>]

\* mutant of open_redirect_file: the file is opened for appending
open_redirect_file_Appends(fs, path) ==
    [p \in DOMAIN fs \cup {path} |-> IF p \in DOMAIN fs THEN fs[p] ELSE <<>>]

open_redirect_file(fs, path) ==
    [p \in DOMAIN fs \cup {path} |-> IF p = path THEN <<>> ELSE fs[p]]

write_file(fs, path) ==
    IF path \in DOMAIN fs THEN [fs EXCEPT ![path] = Append(@, "out")] ELSE fs

(***************************************************************************)
(* Results.                                                                *)
(***************************************************************************)
Ok == [ok |-> TRUE, tag |-> "Ok", name |-> <<>>, stage |-> 0]
Err(tag, name, stage) == [ok |-> FALSE, tag |-> tag, name |-> name, stage |-> stage]
Pending == [ok |-> FALSE, tag |-> "Pending", name |-> <<>>, stage |-> 0]

(***************************************************************************)
(* Builtin registry: CommandRegistry::setup / execute and the handlers.    *)
(***************************************************************************)
\* mutant of Builtins: no handler is registered under `type`
Builtins_NoType == {W_echo, W_cd, W_ls, W_pwd, W_history}

\* the names CommandRegistry::setup registers handlers under
Builtins == {W_echo, W_cd, W_ls, W_pwd, W_history, W_type}

\* no registry has been set up
NoContext == [history |-> <<>>, builtins |-> {}]

\* mutant of registry_setup: the context is the one of the start of the session
registry_setup_AtStartup(h) == [history |-> <<>>, builtins |-> Builtins]

\* CommandRegistry::setup: the Command Context of the new registry
registry_setup(h) == [history |-> h, builtins |-> Builtins]

\* ChangeDirectory::execute: [ok, dir]
cd_execute(args, home, cwd) ==
    LET new_dir == IF args = <<>> THEN home ELSE args[1]
    IN  IF new_dir \in ExistingDirs
        THEN [ok |-> TRUE, dir |-> new_dir]
        ELSE [ok |-> FALSE, dir |-> cwd]

\* ListDirectory::execute
ls_execute(args, cwd) ==
    LET paths == SelectSeq(args, LAMBDA a : a = <<>> \/ a[1] # "-")
        path == IF paths = <<>> THEN cwd ELSE paths[1]
    IN  path \in ExistingDirs \/ (paths # <<>> /\ path = <<".">> /\ cwd # Deleted)

\* the handler registered under name, run in directory cwd: [ok, dir]
handler_execute(name, args, home, cwd) ==
    IF name = W_cd THEN cd_execute(args, home, cwd)
    ELSE IF name = W_ls THEN [ok |-> ls_execute(args, cwd), dir |-> cwd]
    ELSE IF name = W_pwd THEN [ok |-> cwd # Deleted, dir |-> cwd]
    ELSE IF name = W_type THEN [ok |-> args # <<>>, dir |-> cwd]
    ELSE [ok |-> TRUE, dir |-> cwd]

\* mutant of registry_execute: arguments that do not parse as flags make it a miss
registry_execute_FlagErrorIsMiss(command, args, home, cwd) ==
    IF command \in Builtins /\ Flags_new(args).tag = "Ok"
    THEN LET h == handler_execute(command, args, home, cwd)
         IN  [hit |-> TRUE, invoked |-> TRUE,
              result |-> IF h.ok THEN Ok ELSE Err("Builtin", command, 0),
              dir |-> h.dir]
    ELSE [hit |-> FALSE, invoked |-> FALSE, result |-> Ok, dir |-> cwd]

\* mutant of registry_execute: a handler runs with default flags when the arguments
\* do not parse
registry_execute_DefaultFlags(command, args, home, cwd) ==
    IF command \in Builtins
    THEN LET h == handler_execute(command, args, home, cwd)
         IN  [hit |-> TRUE, invoked |-> TRUE,
              result |-> IF h.ok THEN Ok ELSE Err("Builtin", command, 0),
              dir |-> h.dir]
    ELSE [hit |-> FALSE, invoked |-> FALSE, result |-> Ok, dir |-> cwd]

\* CommandRegistry::execute: [hit, invoked, result, dir]
registry_execute(command, args, home, cwd) ==
    IF command \in Builtins
    THEN LET flags == Flags_new(args)
         IN  IF flags.tag # "Ok"
             THEN [hit |-> TRUE, invoked |-> FALSE, result |-> Err(flags.tag, command, 0), dir |-> cwd]
             ELSE LET h == handler_execute(command, args, home, cwd)
                  IN  [hit |-> TRUE, invoked |-> TRUE,
                       result |-> IF h.ok THEN Ok ELSE Err("Builtin", command, 0),
                       dir |-> h.dir]
    ELSE [hit |-> FALSE, invoked |-> FALSE, result |-> Ok, dir |-> cwd]

(***************************************************************************)
(* Process orchestrator: ExternalCommand (core/external.rs).               *)
(*                                                                         *)
(* A child is [cmd, cwd, stdin, stdout, state, status, out]: stdin and     *)
(* stdout are 0 (inherited), the index of a pipe, or -1 (the redirect      *)
(* file); state is running, zombie (exited, not waited on) or reaped; out  *)
(* is what a running child has still to write.                             *)
(* Pipe ends are close-on-exec: a child holds only the ends wired to it.   *)
(***************************************************************************)
Child(cmd, cwd, stdin, stdout, out) ==
    [cmd |-> cmd, cwd |-> cwd, stdin |-> stdin, stdout |-> stdout,
     state |-> "running", status |-> "none", out |-> out]

\* Command::spawn succeeds for the names the OS can execute
CanSpawn(cmd) == cmd \in Executables

\* create_base_command sets current_dir: the child changes to it before it executes,
\* and the spawn fails (NotFound) when that directory is no longer there
CanEnter(dir, cwd) == dir \in ExistingDirs /\ (cwd = Deleted => dir = RootDir)

\* mutant of NeedsPipe: a pipe for the last stage too
NeedsPipe_LastToo(i, n) == i <= n

\* `if i < pipeline.len() - 1` with i counted from 1
NeedsPipe(i, n) == i < n

\* mutant of HeldAfterSpawn: the read end is not taken out of previous_pipe
HeldAfterSpawn_NotTaken(piped, reader, prev) == IF piped THEN reader ELSE prev

\* previous_pipe after an iteration: take() emptied it, a new pipe's reader refills it;
\* the Command and the ends moved into it are dropped when the iteration ends
HeldAfterSpawn(piped, reader, prev) == IF piped THEN reader ELSE 0

\* mutant of AfterSpawn: each stage is waited on as soon as it is spawned
AfterSpawn_WaitAtOnce(i, n) == "Waiting"

\* after stage i of n has been spawned: the loop goes on, or wait_for_processes is entered
AfterSpawn(i, n) == IF i < n THEN "Spawning" ELSE "Waiting"

\* mutant of ReportedStage: the 0-based index
ReportedStage_ZeroBased(i) == i - 1

\* the stage number wait_for_processes reports for the i-th child (i + 1 for the 0-based i)
ReportedStage(i) == i

\* check_status / wait_for_processes: the error for a child that exited unsuccessfully
ExitError(m, i) ==
    IF m = "pipeline" THEN Err("PipelineExited", <<>>, ReportedStage(i))
    ELSE IF m = "redirect" THEN Err("RedirectExited", <<>>, 0)
    ELSE Err("CommandExited", <<>>, 0)

\* Shell::execute_external maps NotFound; Shell::execute passes the other modes' errors on
ShellError(m, e, command) ==
    IF m = "external" /\ e.tag = "NotFound" THEN Err("CommandNotFound", command, 0) ELSE e

\* wait_for_processes waits on the children in order: the next one to wait on
WaitIndex == Cardinality({i \in 1..Len(processes) : processes[i].state = "reaped"}) + 1

\* wait_for_processes after the i-th child was reaped successfully
AfterWait(i, n) == IF i < n THEN "Waiting" ELSE "Executed"

\* pipe() fails: execute_pipeline returns the error, dropping its locals
PipeFails ==
    /\ pc = "Spawning"
    /\ mode = "pipeline"
    /\ NeedsPipe(Len(processes) + 1, Len(pipeline))
    /\ result' = Err("Pipe", <<>>, 0)
    /\ previous_pipe' = 0
    /\ pc' = "Executed"
    /\ UNCHANGED <<lastRead, line, history, history_file, input, parts, current_dir,
                   os_cwd, env_HOME, mode, pipeline, redirect, processes, pipes,
                   workload, stderr, invoked, leaked, nlines, files, terminal,
                   Flags, value_flags, context>>

\* one iteration of the spawn loop of execute_pipeline; execute and execute_redirect
\* spawn their one command the same way, without pipes
SpawnStage ==
    /\ pc = "Spawning"
    /\ Len(processes) < Len(pipeline)
    /\ LET i == Len(processes) + 1
           n == Len(pipeline)
           piped == mode = "pipeline" /\ NeedsPipe(i, n)
           newpipes == IF piped THEN Append(pipes, [buf |-> 0]) ELSE pipes
           out == IF piped THEN Len(newpipes) ELSE IF mode = "redirect" THEN -1 ELSE 0
       IN  /\ pipes' = newpipes
           /\ IF CanSpawn(pipeline[i].cmd) /\ CanEnter(current_dir, os_cwd)
              THEN /\ processes' = Append(processes,
                          Child(pipeline[i].cmd, current_dir, previous_pipe, out,
                                IF i \in DOMAIN workload THEN workload[i] ELSE 0))
                   /\ previous_pipe' = HeldAfterSpawn(piped, Len(newpipes), previous_pipe)
                   /\ pc' = AfterSpawn(i, n)
                   /\ UNCHANGED result
              ELSE /\ result' = ShellError(mode, Err("NotFound", <<>>, 0), pipeline[i].cmd)
                   /\ previous_pipe' = 0
                   /\ pc' = "Executed"
                   /\ UNCHANGED processes
    /\ UNCHANGED <<lastRead, line, history, history_file, input, parts, current_dir,
                   os_cwd, env_HOME, mode, pipeline, redirect, workload, stderr,
                   invoked, leaked, nlines, files, terminal,
                   Flags, value_flags, context>>

\* one iteration of wait_for_processes (Child::wait of execute and execute_redirect):
\* blocks until the child has exited, reaps it, returns at the first failure
WaitStage ==
    /\ pc = "Waiting"
    /\ LET i == WaitIndex
       IN  /\ i <= Len(processes)
           /\ processes[i].state = "zombie"
           /\ processes' = [processes EXCEPT ![i].state = "reaped"]
           /\ IF processes[i].status # "ok"
              THEN /\ result' = ExitError(mode, i)
                   /\ pc' = "Executed"
              ELSE /\ pc' = AfterWait(i, Len(processes))
                   /\ result' = IF pc' = "Executed" THEN Ok ELSE result
    /\ UNCHANGED <<lastRead, line, history, history_file, input, parts, current_dir,
                   os_cwd, env_HOME, mode, pipeline, redirect, pipes, previous_pipe,
                   workload, stderr, invoked, leaked, nlines, files, terminal,
                   Flags, value_flags, context>>

(***************************************************************************)
(* The children, as the OS runs them.                                      *)
(***************************************************************************)
Running(i) == i \in 1..Len(processes) /\ processes[i].state = "running"

\* some process holds the read end of pipe p: the shell, or the running child wired to it
HasReader(p) ==
    \/ previous_pipe = p
    \/ \E j \in 1..Len(processes) : Running(j) /\ processes[j].stdin = p

HasWriter(p) == \E j \in 1..Len(processes) : Running(j) /\ processes[j].stdout = p

\* child i has written all its output and its input is at end-of-file
Finished(i) ==
    /\ Running(i)
    /\ processes[i].out = 0
    /\ processes[i].stdin > 0 =>
          (pipes[processes[i].stdin].buf = 0 /\ ~HasWriter(processes[i].stdin))

\* a child exits, at any time, with either status
ChildExit(i, st) ==
    /\ Running(i)
    /\ processes' = [processes EXCEPT ![i].state = "zombie", ![i].status = st, ![i].out = 0]
    /\ UNCHANGED <<pc, lastRead, line, history, history_file, input, parts, current_dir,
                   os_cwd, env_HOME, mode, pipeline, redirect, pipes, previous_pipe,
                   workload, result, stderr, invoked, leaked, nlines, files, terminal,
                   Flags, value_flags, context>>

\* a child writes one unit: to the terminal or file, or to its pipe when there is room;
\* when nobody holds the read end it is killed by SIGPIPE
ChildWrite(i) ==
    /\ Running(i)
    /\ processes[i].out > 0
    /\ LET p == processes[i].stdout
       IN  IF p <= 0
           THEN /\ processes' = [processes EXCEPT ![i].out = @ - 1]
                /\ files' = IF p = -1 THEN write_file(files, redirect) ELSE files
                /\ terminal' = IF p = 0 THEN terminal + 1 ELSE terminal
                /\ UNCHANGED pipes
           ELSE IF ~HasReader(p)
           THEN /\ processes' = [processes EXCEPT ![i].state = "zombie", ![i].status = "fail",
                                                ![i].out = 0]
                /\ UNCHANGED <<pipes, files, terminal>>
           ELSE /\ pipes[p].buf < PipeCap
                /\ pipes' = [pipes EXCEPT ![p].buf = @ + 1]
                /\ processes' = [processes EXCEPT ![i].out = @ - 1]
                /\ UNCHANGED <<files, terminal>>
    /\ UNCHANGED <<pc, lastRead, line, history, history_file, input, parts, current_dir,
                   os_cwd, env_HOME, mode, pipeline, redirect, previous_pipe,
                   workload, result, stderr, invoked, leaked, nlines,
                   Flags, value_flags, context>>

\* a child reads one unit from its input pipe
ChildRead(i) ==
    /\ Running(i)
    /\ processes[i].stdin > 0
    /\ pipes[processes[i].stdin].buf > 0
    /\ pipes' = [pipes EXCEPT ![processes[i].stdin].buf = @ - 1]
    /\ UNCHANGED <<pc, lastRead, line, history, history_file, input, parts, current_dir,
                   os_cwd, env_HOME, mode, pipeline, redirect, processes, previous_pipe,
                   workload, result, stderr, invoked, leaked, nlines, files, terminal,
                   Flags, value_flags, context>>

(***************************************************************************)
(* execute_pipeline called on its own, on any pipeline of up to MaxStages  *)
(* stages, with programs that write up to MaxOut units.                    *)
(***************************************************************************)
RECURSIVE SeqsUpTo(_, _)
SeqsUpTo(S, n) ==
    IF n = 0 THEN {<<>>}
    ELSE LET shorter == SeqsUpTo(S, n - 1)
         IN  shorter \cup {Append(s, x) : s \in shorter, x \in S}

PipeInit ==
    /\ pc = "Spawning"
    /\ pipeline \in SeqsUpTo({Stage(W_cat, <<>>), Stage(W_x, <<>>)}, MaxStages)
    /\ workload \in [1..MaxStages -> {0, MaxOut}]
    /\ mode = "pipeline"
    /\ lastRead = "none" /\ line = <<>> /\ history = <<>> /\ history_file = <<>>
    /\ input = <<>> /\ parts = <<>>
    /\ current_dir = StartDir /\ os_cwd = StartDir /\ env_HOME = HomeDir
    /\ redirect = <<>> /\ processes = <<>> /\ pipes = <<>> /\ previous_pipe = 0
    /\ result = Pending /\ stderr = Pending /\ invoked = <<>> /\ leaked = 0 /\ nlines = 0
    /\ files = NoFiles /\ terminal = 0
    /\ Flags = Flags_default /\ value_flags = {} /\ context = NoContext

\* `if pipeline.is_empty() { return Ok(()) }`
EmptyPipeline ==
    /\ pc = "Spawning"
    /\ pipeline = <<>>
    /\ result' = Ok
    /\ pc' = "Executed"
    /\ UNCHANGED <<lastRead, line, history, history_file, input, parts, current_dir,
                   os_cwd, env_HOME, mode, pipeline, redirect, processes, pipes,
                   previous_pipe, workload, stderr, invoked, leaked, nlines,
                   files, terminal,
                   Flags, value_flags, context>>

PipeNext ==
    \/ EmptyPipeline
    \/ PipeFails
    \/ SpawnStage
    \/ WaitStage
    \/ \E i \in 1..MaxStages, st \in {"ok", "fail"} : ChildExit(i, st)
    \/ \E i \in 1..MaxStages : ChildWrite(i)
    \/ \E i \in 1..MaxStages : ChildRead(i)

PipeSpec == PipeInit /\ [][PipeNext]_vars

\* The shell and the programs keep running: the shell takes its next step, a program
\* writes while there is room, reads while there is input, and exits once it has
\* written its output and seen end-of-file.
PipeFairness ==
    /\ WF_vars(EmptyPipeline)
    /\ WF_vars(SpawnStage)
    /\ WF_vars(WaitStage)
    /\ \A i \in 1..MaxStages :
          /\ WF_vars(ChildWrite(i))
          /\ WF_vars(ChildRead(i))
          /\ WF_vars(Finished(i) /\ \E st \in {"ok", "fail"} : ChildExit(i, st))

FairPipeSpec == PipeInit /\ [][PipeNext]_vars /\ PipeFairness

(***************************************************************************)
(* The session: Shell::run, Shell::read_input, Shell::execute.             *)
(***************************************************************************)
Sp(words) == Join(words, <<SPACE>>)

\* the lines typed in a session
SessionLines == {
    <<>>,
    <<SPACE, SPACE>>,
    Sp(<<<<HASH>>, W_x>>),
    W_x,
    W_cat,
    W_exit,
    <<QUOTE, QUOTE>>,
    Sp(<<W_cd, RootDir>>),
    Sp(<<W_cat, <<PIPE>>, W_x>>),
    Sp(<<W_cat, <<PIPE>>, W_cat, <<PIPE>>, W_cat>>),
    <<PIPE>>,
    Sp(<<W_cat, <<PIPE>>, W_cat, <<GT>>, W_f>>),
    Sp(<<W_x, <<GT>>, W_f>>),
    Sp(<<W_echo, <<GT>>, W_f>>),
    Sp(<<W_cat, <<GT>>>>),
    W_pwd \o <<SEMI>> \o W_x \o <<SPACE, HASH>> \o W_ls }

\* mutant of add_history_entry: the line is not recorded
add_history_entry_NotRecorded(h, l) == h

\* rustyline's Editor::add_history_entry with its default configuration:
\* empty lines and a repeat of the last entry are not added
add_history_entry(h, l) ==
    IF l = <<>> \/ (h # <<>> /\ h[Len(h)] = l) THEN h ELSE Append(h, l)

Init ==
    /\ pc = "Reading"
    /\ lastRead = "none" /\ line = <<>> /\ history = <<>> /\ history_file = <<>>
    /\ input = <<>> /\ parts = <<>>
    /\ current_dir = StartDir /\ os_cwd = StartDir
    /\ env_HOME \in {HomeDir, <<>>}
    /\ mode = "none" /\ pipeline = <<>> /\ redirect = <<>>
    /\ processes = <<>> /\ pipes = <<>> /\ previous_pipe = 0
    /\ workload = [i \in 1..MaxStages |-> 0]
    /\ result = Pending /\ stderr = Pending /\ invoked = <<>> /\ leaked = 0 /\ nlines = 0
    /\ files = NoFiles /\ terminal = 0
    /\ Flags = Flags_default /\ value_flags = {} /\ context = NoContext

\* read_input, Ok(line): the line enters the history, then is split into statements;
\* run goes on to the statements, or back to reading when there is none
ReadLine ==
    /\ pc = "Reading"
    /\ nlines < MaxLines
    /\ nlines' = nlines + 1
    /\ \E l \in SessionLines :
          /\ line' = l
          /\ history' = add_history_entry(history, l)
          /\ input' = transform_input(l)
    /\ lastRead' = "line"
    /\ pc' = IF input' = <<>> THEN "Reading" ELSE "Dispatching"
    /\ UNCHANGED <<history_file, parts, current_dir, os_cwd, env_HOME, mode, pipeline,
                   redirect, processes, pipes, previous_pipe, workload, result, stderr,
                   invoked, leaked, files, terminal,
                   Flags, value_flags, context>>

\* mutant of Interrupt: Ctrl-C handled like Ctrl-D
Interrupt_EndsSession ==
    /\ pc = "Reading"
    /\ lastRead' = "interrupt"
    /\ pc' = "Exited"
    /\ UNCHANGED <<line, history, history_file, input, parts, current_dir, os_cwd,
                   env_HOME, mode, pipeline, redirect, processes, pipes, previous_pipe,
                   workload, result, stderr, invoked, leaked, nlines, files, terminal,
                   Flags, value_flags, context>>

\* read_input, Err(Interrupted): no statement, run reads again
Interrupt ==
    /\ pc = "Reading"
    /\ lastRead' = "interrupt"
    /\ UNCHANGED <<pc, line, history, history_file, input, parts, current_dir, os_cwd,
                   env_HOME, mode, pipeline, redirect, processes, pipes, previous_pipe,
                   workload, result, stderr, invoked, leaked, nlines, files, terminal,
                   Flags, value_flags, context>>

\* read_input, any other Err: no statement, run reads again
ReadError ==
    /\ pc = "Reading"
    /\ lastRead' = "error"
    /\ UNCHANGED <<pc, line, history, history_file, input, parts, current_dir, os_cwd,
                   env_HOME, mode, pipeline, redirect, processes, pipes, previous_pipe,
                   workload, result, stderr, invoked, leaked, nlines, files, terminal,
                   Flags, value_flags, context>>

\* read_input, Err(Eof): std::process::exit(0)
Eof ==
    /\ pc = "Reading"
    /\ lastRead' = "eof"
    /\ pc' = "Exited"
    /\ UNCHANGED <<line, history, history_file, input, parts, current_dir, os_cwd,
                   env_HOME, mode, pipeline, redirect, processes, pipes, previous_pipe,
                   workload, result, stderr, invoked, leaked, nlines, files, terminal,
                   Flags, value_flags, context>>

\* the statement the for loop of run takes next, its tokens, command name and arguments
Statement == Head(input)
Parts == parse_args(Statement)
\* mutant of Command: the command name is expanded as the arguments are
Command_Expanded == expand_tilde(Parts[1], env_HOME)

Command == Parts[1]
Args == [i \in 1..(Len(Parts) - 1) |-> expand_tilde(Parts[i + 1], env_HOME)]

\* mutant of execute_route: a builtin name is looked up before the operators
execute_route_BuiltinFirst(command, args) ==
    IF command = <<>> THEN "empty"
    ELSE IF command \in Builtins THEN "command"
    ELSE IF try_parse_pipeline(command, args).some THEN "pipeline"
    ELSE IF try_parse_redirects(command, args).some THEN "redirect"
    ELSE "command"

\* mutant of execute_route: redirects are looked for before pipelines
execute_route_RedirectFirst(command, args) ==
    IF command = <<>> THEN "empty"
    ELSE IF try_parse_redirects(command, args).some THEN "redirect"
    ELSE IF try_parse_pipeline(command, args).some THEN "pipeline"
    ELSE "command"

\* Shell::execute: which way a command goes ("empty" returns Ok at once; a token is
\* never empty, so run never passes an empty command)
execute_route(command, args) ==
    IF command = <<>> THEN "empty"
    ELSE IF try_parse_pipeline(command, args).some THEN "pipeline"
    ELSE IF try_parse_redirects(command, args).some THEN "redirect"
    ELSE "command"

\* `parts.first().unwrap()` on a statement without tokens
DispatchPanic ==
    /\ pc = "Dispatching"
    /\ Parts = <<>>
    /\ input' = Tail(input)
    /\ parts' = Parts
    /\ pc' = "Panicked"
    /\ UNCHANGED <<lastRead, line, history, history_file, current_dir, os_cwd, env_HOME,
                   mode, pipeline, redirect, processes, pipes, previous_pipe, workload,
                   result, stderr, invoked, leaked, nlines, files, terminal,
                   Flags, value_flags, context>>

\* the "exit" arm: save_history(..).unwrap(), return Ok(())
DispatchExit ==
    /\ pc = "Dispatching"
    /\ Parts # <<>>
    /\ Command = W_exit
    /\ input' = Tail(input)
    /\ parts' = Parts
    /\ \E saved \in BOOLEAN :
          IF saved THEN history_file' = history /\ pc' = "Exited"
          ELSE pc' = "Panicked" /\ UNCHANGED history_file
    /\ UNCHANGED <<lastRead, line, history, current_dir, os_cwd, env_HOME, mode, pipeline,
                   redirect, processes, pipes, previous_pipe, workload, result, stderr,
                   invoked, leaked, nlines, files, terminal,
                   Flags, value_flags, context>>

\* what every call of Shell::execute starts from
Executes(route) ==
    /\ pc = "Dispatching"
    /\ Parts # <<>>
    /\ Command # W_exit
    /\ execute_route(Command, Args) = route
    /\ input' = Tail(input)
    /\ parts' = Parts
    /\ processes' = <<>> /\ pipes' = <<>> /\ previous_pipe' = 0
    /\ stderr' = Pending

\* Shell::execute, pipeline found: ExternalCommand::execute_pipeline
DispatchPipeline ==
    /\ Executes("pipeline")
    /\ mode' = "pipeline"
    /\ pipeline' = try_parse_pipeline(Command, Args).pipeline
    /\ redirect' = <<>> /\ invoked' = <<>> /\ result' = Pending
    /\ pc' = "Spawning"
    /\ UNCHANGED <<lastRead, line, history, history_file, current_dir, os_cwd, env_HOME,
                   workload, leaked, nlines, files, terminal,
                   Flags, value_flags, context>>

\* mutant of DispatchRedirect: the command is spawned before the file is opened
DispatchRedirect_SpawnsFirst ==
    /\ pc = "Dispatching"
    /\ Parts # <<>>
    /\ Command # W_exit
    /\ execute_route(Command, Args) = "redirect"
    /\ input' = Tail(input)
    /\ parts' = Parts
    /\ pipes' = <<>> /\ previous_pipe' = 0
    /\ stderr' = Pending
    /\ mode' = "redirect"
    /\ invoked' = <<>>
    /\ LET rd == try_parse_redirects(Command, Args)
       IN  /\ CanSpawn(rd.cmd)
           /\ processes' = <<Child(rd.cmd, current_dir, 0, -1, 0)>>
           /\ pipeline' = <<Stage(rd.cmd, rd.args)>>
           /\ \E opened \in BOOLEAN :
                 IF opened
                 THEN /\ redirect' = trim(rd.output)
                      /\ files' = open_redirect_file(files, trim(rd.output))
                      /\ result' = Pending
                      /\ pc' = "Waiting"
                 ELSE /\ redirect' = <<>>
                      /\ files' = files
                      /\ result' = Err("OpenRedirect", <<>>, 0)
                      /\ pc' = "Executed"
    /\ UNCHANGED <<lastRead, line, history, history_file, current_dir, os_cwd, env_HOME,
                   workload, leaked, nlines, terminal,
                   Flags, value_flags, context>>

\* mutant of DispatchRedirect: a command that cannot be spawned fails before the
\* file is opened
DispatchRedirect_SpawnFailsFirst ==
    /\ Executes("redirect")
    /\ mode' = "redirect"
    /\ invoked' = <<>>
    /\ LET rd == try_parse_redirects(Command, Args)
       IN  IF ~(CanSpawn(rd.cmd) /\ CanEnter(current_dir, os_cwd))
           THEN /\ pipeline' = <<Stage(rd.cmd, rd.args)>>
                /\ redirect' = trim(rd.output)
                /\ files' = files
                /\ result' = Err("NotFound", <<>>, 0)
                /\ pc' = "Executed"
           ELSE \E opened \in BOOLEAN :
                   IF opened
                   THEN /\ pipeline' = <<Stage(rd.cmd, rd.args)>>
                        /\ redirect' = trim(rd.output)
                        /\ files' = open_redirect_file(files, trim(rd.output))
                        /\ result' = Pending
                        /\ pc' = "Spawning"
                   ELSE /\ pipeline' = <<>>
                        /\ redirect' = <<>>
                        /\ files' = files
                        /\ result' = Err("OpenRedirect", <<>>, 0)
                        /\ pc' = "Executed"
    /\ UNCHANGED <<lastRead, line, history, history_file, current_dir, os_cwd, env_HOME,
                   workload, leaked, nlines, terminal,
                   Flags, value_flags, context>>

\* Shell::execute, redirect found: ExternalCommand::execute_redirect opens the file first
DispatchRedirect ==
    /\ Executes("redirect")
    /\ mode' = "redirect"
    /\ invoked' = <<>>
    /\ LET rd == try_parse_redirects(Command, Args)
       IN  \E opened \in BOOLEAN :
              IF opened
              THEN /\ pipeline' = <<Stage(rd.cmd, rd.args)>>
                   /\ redirect' = trim(rd.output)
                   /\ files' = open_redirect_file(files, trim(rd.output))
                   /\ result' = Pending
                   /\ pc' = "Spawning"
              ELSE /\ pipeline' = <<>>
                   /\ redirect' = <<>>
                   /\ files' = files
                   /\ result' = Err("OpenRedirect", <<>>, 0)
                   /\ pc' = "Executed"
    /\ UNCHANGED <<lastRead, line, history, history_file, current_dir, os_cwd, env_HOME,
                   workload, leaked, nlines, terminal,
                   Flags, value_flags, context>>

\* Shell::execute_command, the registry knows the name: the handler runs in the shell
DispatchBuiltin ==
    /\ Executes("command")
    /\ LET r == registry_execute(Command, Args, env_HOME, os_cwd)
       IN  /\ r.hit
           /\ invoked' = IF r.invoked THEN Command ELSE <<>>
           /\ result' = r.result
           /\ os_cwd' = r.dir
    /\ context' = registry_setup(history)
    /\ mode' = "builtin"
    /\ pipeline' = <<>> /\ redirect' = <<>>
    /\ pc' = "Executed"
    /\ UNCHANGED <<lastRead, line, history, history_file, current_dir, env_HOME,
                   workload, leaked, nlines, files, terminal,
                   Flags, value_flags>>

\* Shell::execute_command, no builtin: Shell::execute_external
DispatchExternal ==
    /\ Executes("command")
    /\ ~registry_execute(Command, Args, env_HOME, os_cwd).hit
    /\ context' = registry_setup(history)
    /\ mode' = "external"
    /\ pipeline' = <<Stage(Command, Args)>>
    /\ redirect' = <<>> /\ invoked' = <<>> /\ result' = Pending
    /\ pc' = "Spawning"
    /\ UNCHANGED <<lastRead, line, history, history_file, current_dir, os_cwd, env_HOME,
                   workload, leaked, nlines, files, terminal,
                   Flags, value_flags>>

Unreaped == Cardinality({i \in 1..Len(processes) : processes[i].state # "reaped"})

\* mutant of UpdateState: current_dir is not re-read after a statement
UpdateState_NoReread ==
    /\ pc = "Executed"
    /\ stderr' = IF result.ok THEN Pending ELSE result
    /\ leaked' = leaked + Unreaped
    /\ pc' = IF input = <<>> THEN "Reading" ELSE "Dispatching"
    /\ parts' = <<>> /\ mode' = "none" /\ pipeline' = <<>> /\ redirect' = <<>>
    /\ processes' = <<>> /\ pipes' = <<>> /\ result' = Pending /\ invoked' = <<>>
    /\ context' = NoContext
    /\ UNCHANGED <<lastRead, line, history, history_file, input, current_dir, os_cwd,
                   env_HOME, previous_pipe, workload, nlines, files, terminal,
                   Flags, value_flags>>

\* run after Shell::execute returned: print the error, re-read the working directory
\* (`env::current_dir()?`), go on with the next statement or read again
UpdateState ==
    /\ pc = "Executed"
    /\ stderr' = IF result.ok THEN Pending ELSE result
    /\ leaked' = leaked + Unreaped
    /\ IF os_cwd = Deleted
       THEN pc' = "Failed" /\ UNCHANGED current_dir
       ELSE /\ current_dir' = os_cwd
            /\ pc' = IF input = <<>> THEN "Reading" ELSE "Dispatching"
    /\ parts' = <<>> /\ mode' = "none" /\ pipeline' = <<>> /\ redirect' = <<>>
    /\ processes' = <<>> /\ pipes' = <<>> /\ result' = Pending /\ invoked' = <<>>
    /\ context' = NoContext
    /\ UNCHANGED <<lastRead, line, history, history_file, input, os_cwd, env_HOME,
                   previous_pipe, workload, nlines, files, terminal,
                   Flags, value_flags>>

\* some process of the system removes the directory the shell is in
RemoveCwd ==
    /\ pc \in {"Reading", "Dispatching", "Spawning", "Waiting", "Executed"}
    /\ os_cwd \notin {Deleted, RootDir}
    /\ os_cwd' = Deleted
    /\ UNCHANGED <<pc, lastRead, line, history, history_file, input, parts, current_dir,
                   env_HOME, mode, pipeline, redirect, processes, pipes, previous_pipe,
                   workload, result, stderr, invoked, leaked, nlines, files, terminal,
                   Flags, value_flags, context>>

Next ==
    \/ ReadLine
    \/ Interrupt
    \/ ReadError
    \/ Eof
    \/ DispatchPanic
    \/ DispatchExit
    \/ DispatchPipeline
    \/ DispatchRedirect
    \/ DispatchBuiltin
    \/ DispatchExternal
    \/ EmptyPipeline
    \/ PipeFails
    \/ SpawnStage
    \/ WaitStage
    \/ \E i \in 1..MaxStages, st \in {"ok", "fail"} : ChildExit(i, st)
    \/ UpdateState
    \/ RemoveCwd

Spec == Init /\ [][Next]_vars

(***************************************************************************)
(* The splitter and the tokenizer on any line of up to MaxLen characters:  *)
(* read_input splits the line, the for loop of run tokenizes each          *)
(* statement and takes its first token.                                    *)
(***************************************************************************)
TokenAlphabet == {"a", SPACE, TAB, QUOTE, SEMI, HASH}

TokenInit ==
    /\ pc = "Typed"
    /\ line \in SeqsUpTo(TokenAlphabet, MaxLen)
    /\ lastRead = "none" /\ history = <<>> /\ history_file = <<>>
    /\ input = <<>> /\ parts = <<>>
    /\ current_dir = StartDir /\ os_cwd = StartDir /\ env_HOME = HomeDir
    /\ mode = "none" /\ pipeline = <<>> /\ redirect = <<>>
    /\ processes = <<>> /\ pipes = <<>> /\ previous_pipe = 0
    /\ workload = [i \in 1..MaxStages |-> 0]
    /\ result = Pending /\ stderr = Pending /\ invoked = <<>> /\ leaked = 0 /\ nlines = 0
    /\ files = NoFiles /\ terminal = 0
    /\ Flags = Flags_default /\ value_flags = {} /\ context = NoContext

\* read_input, Ok(line), on the line typed
SplitLine ==
    /\ pc = "Typed"
    /\ history' = add_history_entry(history, line)
    /\ input' = transform_input(line)
    /\ lastRead' = "line"
    /\ nlines' = nlines + 1
    /\ pc' = IF input' = <<>> THEN "Reading" ELSE "Dispatching"
    /\ UNCHANGED <<line, history_file, parts, current_dir, os_cwd, env_HOME, mode, pipeline,
                   redirect, processes, pipes, previous_pipe, workload, result, stderr,
                   invoked, leaked, files, terminal,
                   Flags, value_flags, context>>

\* the head of the for loop of run: parse_args, then the first token is the command
Tokenize ==
    /\ pc = "Dispatching"
    /\ Parts # <<>>
    /\ input' = Tail(input)
    /\ parts' = Parts
    /\ pc' = IF input' = <<>> THEN "Reading" ELSE "Dispatching"
    /\ UNCHANGED <<lastRead, line, history, history_file, current_dir, os_cwd, env_HOME,
                   mode, pipeline, redirect, processes, pipes, previous_pipe, workload,
                   result, stderr, invoked, leaked, nlines, files, terminal,
                   Flags, value_flags, context>>

TokenNext ==
    \/ SplitLine
    \/ Tokenize
    \/ DispatchPanic

TokenSpec == TokenInit /\ [][TokenNext]_vars

(***************************************************************************)
(* The body of the for loop of run on any one statement of up to MaxToks   *)
(* tokens, with programs that write up to MaxOut units and, for a          *)
(* statement with a `>`, a file f that exists already or not.  A statement *)
(* is made of commands and operators, or is a command with flag arguments, *)
(* or has quoted operators and tokens that begin with `~`.                 *)
(***************************************************************************)
TokenWords == {W_echo, W_cat, W_f, W_flag, <<PIPE>>, <<GT>>}
FlagWords == {<<"-">>, W_flag, <<"-", "a", "b">>}
Quote(w) == <<QUOTE>> \o w \o <<QUOTE>>
W_tilde == <<TILDE, TILDE>>
QuotedWords == {W_cat, W_tilde, Quote(<<PIPE>>), Quote(<<GT>>)}

Statements ==
    {Sp(t) : t \in SeqsUpTo(TokenWords, MaxToks) \ {<<>>}}
    \cup {Sp(<<c>> \o a) : c \in Builtins \cup {W_x}, a \in SeqsUpTo(FlagWords, MaxToks - 1)}
    \cup {Sp(t) : t \in SeqsUpTo(QuotedWords, MaxToks - 1) \ {<<>>}}

StmtInit ==
    /\ pc = "Dispatching"
    /\ line \in Statements
    /\ input = <<line>>
    /\ history = <<line>> /\ history_file = <<>> /\ lastRead = "line" /\ nlines = 1
    /\ parts = <<>>
    /\ current_dir = StartDir /\ os_cwd = StartDir
    /\ env_HOME \in IF Contains(line, TILDE) THEN {HomeDir, <<>>} ELSE {HomeDir}
    /\ mode = "none" /\ pipeline = <<>> /\ redirect = <<>>
    /\ processes = <<>> /\ pipes = <<>> /\ previous_pipe = 0
    /\ workload \in {[i \in 1..MaxStages |-> w] : w \in {0, MaxOut}}
    /\ result = Pending /\ stderr = Pending /\ invoked = <<>> /\ leaked = 0
    /\ files \in IF Contains(line, GT) THEN {NoFiles, [p \in {W_f} |-> <<"old">>]}
                 ELSE {NoFiles}
    /\ terminal = 0
    /\ Flags = Flags_default /\ value_flags = {} /\ context = NoContext

StmtNext ==
    \/ DispatchPipeline
    \/ DispatchRedirect
    \/ DispatchBuiltin
    \/ DispatchExternal
    \/ EmptyPipeline
    \/ PipeFails
    \/ SpawnStage
    \/ WaitStage
    \/ \E i \in 1..MaxStages, st \in {"ok", "fail"} : ChildExit(i, st)
    \/ \E i \in 1..MaxStages : ChildWrite(i)
    \/ \E i \in 1..MaxStages : ChildRead(i)
    \/ UpdateState

StmtSpec == StmtInit /\ [][StmtNext]_vars

(***************************************************************************)
(* A Flags object through its life: parsed from up to MaxArgs arguments,   *)
(* with no value flag or with `a` taking a value, then changed by          *)
(* add_flag, add_value, remove_flag and clear in any order.                *)
(***************************************************************************)
FlagChars == {"a", "b"}
FlagArgs == {<<"-">>, <<"-", "a">>, <<"-", "b">>, <<"-", "a", "b">>, <<"v">>}

FlagsInit ==
    /\ pc = "FlagsCall"
    /\ parts \in SeqsUpTo(FlagArgs, MaxArgs)
    /\ value_flags \in {{}, {"a"}}
    /\ Flags = Flags_default
    /\ lastRead = "none" /\ line = <<>> /\ history = <<>> /\ history_file = <<>>
    /\ input = <<>>
    /\ current_dir = StartDir /\ os_cwd = StartDir /\ env_HOME = HomeDir
    /\ mode = "none" /\ pipeline = <<>> /\ redirect = <<>>
    /\ processes = <<>> /\ pipes = <<>> /\ previous_pipe = 0
    /\ workload = [i \in 1..MaxStages |-> 0]
    /\ result = Pending /\ stderr = Pending /\ invoked = <<>> /\ leaked = 0 /\ nlines = 0
    /\ files = NoFiles /\ terminal = 0 /\ context = NoContext

\* Flags::with_value_flags(parts, value_flags): Ok(Self { flags, values }) or Err
Flags_parse ==
    /\ pc = "FlagsCall"
    /\ LET r == with_value_flags(parts, value_flags)
       IN  IF r.tag = "Ok"
           THEN /\ Flags' = [flags |-> r.flags, values |-> r.values]
                /\ result' = Ok
                /\ pc' = "Flags"
           ELSE /\ Flags' = Flags
                /\ result' = Err(r.tag, <<>>, 0)
                /\ pc' = "FlagsError"
    /\ UNCHANGED <<lastRead, line, history, history_file, input, parts, current_dir,
                   os_cwd, env_HOME, mode, pipeline, redirect, processes, pipes,
                   previous_pipe, workload, stderr, invoked, leaked, nlines, files,
                   terminal, value_flags, context>>

\* Flags::add_flag
add_flag(flag) ==
    /\ pc = "Flags"
    /\ Flags' = [Flags EXCEPT !.flags = @ \cup {flag}]
    /\ UNCHANGED <<pc, lastRead, line, history, history_file, input, parts, current_dir,
                   os_cwd, env_HOME, mode, pipeline, redirect, processes, pipes,
                   previous_pipe, workload, result, stderr, invoked, leaked, nlines, files,
                   terminal, value_flags, context>>

\* Flags::add_value
add_value(flag, value) ==
    /\ pc = "Flags"
    /\ Flags' = [flags |-> Flags.flags \cup {flag},
                 values |-> values_insert(Flags.values, flag, value)]
    /\ UNCHANGED <<pc, lastRead, line, history, history_file, input, parts, current_dir,
                   os_cwd, env_HOME, mode, pipeline, redirect, processes, pipes,
                   previous_pipe, workload, result, stderr, invoked, leaked, nlines, files,
                   terminal, value_flags, context>>

\* mutant of remove_flag: the value of the flag stays
remove_flag_KeepsValue(flag) ==
    /\ pc = "Flags"
    /\ Flags' = [Flags EXCEPT !.flags = @ \ {flag}]
    /\ UNCHANGED <<pc, lastRead, line, history, history_file, input, parts, current_dir,
                   os_cwd, env_HOME, mode, pipeline, redirect, processes, pipes,
                   previous_pipe, workload, result, stderr, invoked, leaked, nlines, files,
                   terminal, value_flags, context>>

\* Flags::remove_flag
remove_flag(flag) ==
    /\ pc = "Flags"
    /\ Flags' = [flags |-> Flags.flags \ {flag},
                 values |-> values_remove(Flags.values, flag)]
    /\ UNCHANGED <<pc, lastRead, line, history, history_file, input, parts, current_dir,
                   os_cwd, env_HOME, mode, pipeline, redirect, processes, pipes,
                   previous_pipe, workload, result, stderr, invoked, leaked, nlines, files,
                   terminal, value_flags, context>>

\* Flags::clear
clear ==
    /\ pc = "Flags"
    /\ Flags' = [flags |-> {}, values |-> NoValues]
    /\ UNCHANGED <<pc, lastRead, line, history, history_file, input, parts, current_dir,
                   os_cwd, env_HOME, mode, pipeline, redirect, processes, pipes,
                   previous_pipe, workload, result, stderr, invoked, leaked, nlines, files,
                   terminal, value_flags, context>>

FlagsNext ==
    \/ Flags_parse
    \/ \E flag \in FlagChars : add_flag(flag)
    \/ \E flag \in FlagChars : add_value(flag, <<"v">>)
    \/ \E flag \in FlagChars : remove_flag(flag)
    \/ clear

FlagsSpec == FlagsInit /\ [][FlagsNext]_vars

(***************************************************************************)
(* Properties.                                                             *)
(***************************************************************************)
AllReaped == \A i \in 1..Len(processes) : processes[i].state = "reaped"

\* C1: when execute_pipeline returns from waiting (Ok, or the error of a stage that
\* exited unsuccessfully), every stage it spawned has been waited on.
C1_WaitedOnAllAfterExitFailure ==
    (pc = "Executed" /\ mode = "pipeline" /\ result.tag \in {"Ok", "PipelineExited"})
        => AllReaped

\* C2: when spawning a stage fails, every stage spawned before it has been waited on
\* when execute_pipeline returns the error.
C2_WaitedOnAllAfterSpawnFailure ==
    (pc = "Executed" /\ mode = "pipeline" /\ result.tag = "NotFound") => AllReaped

\* C3: the session ends only by an `exit` statement or by end-of-input; no error of a
\* statement ends Shell::run.
C3_OnlyExitOrEofEndsSession ==
    pc \in {"Exited", "Failed", "Panicked"}
        => (lastRead = "eof" \/ (parts # <<>> /\ parts[1] = W_exit))

\* C4: the stages are spawned left to right, one child per stage, and no stage is
\* waited on before the last stage has been spawned.
C4_SpawnAllBeforeAnyWait ==
    [][/\ Len(processes') > Len(processes) =>
            /\ Len(processes') = Len(processes) + 1
            /\ processes'[Len(processes')].cmd = pipeline[Len(processes')].cmd
            /\ \A i \in 1..Len(processes) : processes[i].state # "reaped"
       /\ (/\ Len(processes') = Len(processes)
           /\ \E i \in 1..Len(processes) :
                 processes[i].state # "reaped" /\ processes'[i].state = "reaped")
            => Len(processes) = Len(pipeline)]_vars

C4_Witness ==
    /\ pc = "Waiting"
    /\ Len(pipeline) = 3 /\ Len(processes) = 3
    /\ processes[1].state = "reaped" /\ processes[2].state = "reaped"

\* C5: execute_pipeline always returns when its stages run to completion, however much
\* they write; no stage stays blocked on a full pipe (every stage ends); and while it
\* waits the shell holds no end of an inter-stage pipe.
C5_PipelineReturns ==
    /\ [](pc = "Waiting" => previous_pipe = 0)
    /\ <>(pc = "Executed")
    /\ <>[](\A i \in 1..Len(processes) : processes[i].state # "running")

\* the shell waits on stage 1 while stage 2 cannot write: its pipe is full
C5_Witness ==
    /\ pc = "Waiting" /\ WaitIndex = 1
    /\ Running(2) /\ processes[2].out > 0
    /\ processes[2].stdout > 0 /\ pipes[processes[2].stdout].buf = PipeCap

\* C6: stage i writes to pipe i and stage i + 1 reads from it; the first stage's input
\* and the last stage's output are inherited; there is no pipe after the last stage.
C6_PipeWiring ==
    /\ \A i \in 1..Len(processes) :
          /\ processes[i].stdin = IF i = 1 THEN 0 ELSE i - 1
          /\ processes[i].stdout = IF i < Len(pipeline) THEN i ELSE 0
    /\ pipeline # <<>> => Len(pipes) <= Len(pipeline) - 1
    /\ pipeline = <<>> => pipes = <<>>

C6_Witness ==
    /\ Len(pipeline) = 3 /\ Len(processes) = 3 /\ Len(pipes) = 2
    /\ processes[2].stdin = 1 /\ processes[2].stdout = 2

\* C7: with every stage spawned, execute_pipeline returns Ok only when every stage
\* succeeded, and otherwise the error naming the first stage, in wait order, that failed.
C7_ReportsFirstFailingStage ==
    (pc = "Executed" /\ Len(processes) = Len(pipeline)) =>
        IF result.ok
        THEN \A i \in 1..Len(processes) : processes[i].status = "ok"
        ELSE /\ result.tag = "PipelineExited"
             /\ result.stage \in 1..Len(processes)
             /\ processes[result.stage].status = "fail"
             /\ \A j \in 1..(result.stage - 1) : processes[j].status = "ok"

C7_Witness ==
    /\ pc = "Executed" /\ Len(pipeline) = 3
    /\ result = Err("PipelineExited", <<>>, 2)

\* C8: a plain statement whose command is neither a builtin nor executable gives
\* "command not found: <name>", which is printed, and the session goes on.
C8_UnknownCommandReportedSessionContinues ==
    [][(pc = "Executed" /\ mode = "external" /\ ~CanSpawn(pipeline[1].cmd)) =>
          /\ result = Err("CommandNotFound", pipeline[1].cmd, 0)
          /\ pc' # pc => (stderr' = result /\ pc' \in {"Reading", "Dispatching"})]_vars

\* C9: a spawn failure is reported as "command not found: <name>" in every mode.
C9_SpawnFailureIsCommandNotFound ==
    (pc = "Executed" /\ mode \in {"pipeline", "redirect", "external"}
        /\ Len(processes) < Len(pipeline) /\ result.tag # "Pipe")
        => result = Err("CommandNotFound", pipeline[Len(processes) + 1].cmd, 0)

\* C10: every statement the splitter returns has at least one token, so taking the
\* command name never fails.
C10_StatementHasCommandName ==
    /\ pc = "Dispatching" => (input # <<>> /\ parse_args(Head(input)) # <<>>)
    /\ \A k \in 1..Len(input) : input[k] # <<>> /\ trim(input[k]) = input[k]

\* a line of whitespace only, or of a comment only
BlankOrComment(l) == trim(l) = <<>> \/ trim(l)[1] = HASH

\* C11: a line of whitespace only or of a comment only dispatches no command and does
\* not extend the history.
C11_BlankLineNotLoggedNotDispatched ==
    [][(pc = "Reading" /\ nlines' = nlines + 1 /\ BlankOrComment(line')) =>
          (history' = history /\ input' = <<>> /\ pc' = "Reading")]_vars

\* C12: the statements of a line are dispatched left to right, each once, nothing after
\* the comment marker is among them, and after a statement that is not `exit`, failed or
\* not, the next statement of the line is dispatched.
C12_StatementsInOrderDespiteFailures ==
    [][/\ nlines' = nlines + 1 => \A k \in 1..Len(input') : ~Contains(input'[k], HASH)
       /\ (pc = "Dispatching" /\ input' # input) =>
             (input' = Tail(input) /\ parts' = parse_args(Head(input)))
       /\ (pc = "Dispatching" /\ pc' # pc /\ ~(Parts # <<>> /\ Command = W_exit)) =>
             pc' \in {"Spawning", "Executed"}
       /\ (pc = "Executed" /\ pc' # pc) =>
             (input' = input /\ pc' = IF input = <<>> THEN "Reading" ELSE "Dispatching")]_vars

\* C13: a statement whose command name is `exit` ends the session successfully, nothing
\* is dispatched after the session ended, and end-of-input ends it without dispatching.
C13_ExitEndsSessionSuccessfully ==
    [][/\ (pc = "Dispatching" /\ pc' # pc /\ Parts # <<>> /\ Command = W_exit) =>
             pc' = "Exited"
       /\ (pc = "Reading" /\ lastRead' = "eof") =>
             (pc' = "Exited" /\ UNCHANGED <<input, parts, mode, processes, invoked>>)
       /\ pc = "Exited" => (pc' = "Exited" /\ UNCHANGED <<input, parts, mode, processes>>)]_vars

\* C14: whenever the session has exited, by `exit` or by end-of-input, the history file
\* holds the history log.
C14_HistorySavedOnExit == pc = "Exited" => history_file = history

\* C15: an interrupt while reading dispatches nothing, leaves the working directory and
\* the history as they are, does not end the session and leaves the loop reading.
C15_InterruptReturnsToReading ==
    [][(pc = "Reading" /\ lastRead # "interrupt" /\ lastRead' = "interrupt") =>
          /\ pc' = "Reading"
          /\ UNCHANGED <<history, history_file, current_dir, os_cwd, input, parts, mode,
                         pipeline, processes, invoked, result, leaked>>]_vars

C15_Witness ==
    /\ lastRead = "interrupt" /\ pc = "Reading"
    /\ history # <<>> /\ current_dir = RootDir

\* C16 as stated: every line read is appended to the history log.
C16_EveryLineAppended ==
    [][nlines' = nlines + 1 => history' = Append(history, line')]_vars

\* C16, amended: a non-empty line read is the newest entry of the history log before any
\* of its statements is dispatched (appended unless it repeats the newest entry), and it
\* stays the newest entry, whatever its statements do, until the next line is read.
C16_LineIsNewestEntryBeforeDispatch ==
    [][/\ (nlines' = nlines + 1 /\ line' # <<>>) =>
             /\ history' = IF history # <<>> /\ history[Len(history)] = line'
                           THEN history ELSE Append(history, line')
             /\ history'[Len(history')] = line'
       /\ nlines' = nlines => history' = history
       /\ pc' \in {"Dispatching", "Spawning", "Waiting", "Executed", "Panicked", "Failed"} =>
             (history' # <<>> /\ history'[Len(history')] = line')]_vars

\* a statement of the second line has failed; the line is in the log
C16_Witness ==
    /\ pc = "Executed" /\ ~result.ok
    /\ Len(history) = 2 /\ history[2] = line

\* C17: after every statement current_dir is re-read from the OS; at each dispatch it
\* names the directory the shell is in (unless that directory has been removed under
\* it); every child is spawned with current_dir, the shell's own directory, as its
\* working directory.
C17_CurrentDirFollowsOS ==
    [][/\ (pc = "Executed" /\ pc' \in {"Reading", "Dispatching"}) => current_dir' = os_cwd
       /\ pc' = "Dispatching" => os_cwd' \in {current_dir', Deleted}
       /\ Len(processes') > Len(processes) =>
             /\ processes'[Len(processes')].cwd = current_dir
             /\ current_dir = os_cwd]_vars

\* a child spawned in the directory an earlier `cd` statement changed to
C17_Witness ==
    /\ processes # <<>> /\ processes[1].cwd = RootDir
    /\ current_dir = RootDir /\ os_cwd = RootDir

\* C18: while the loop reads a line or dispatches a statement, no child of an earlier
\* statement is running or unreaped.
C18_NoChildOutlivesItsStatement ==
    pc \in {"Reading", "Dispatching"} => leaked = 0

\* C19: a statement without `|` whose last token is `>` is an error: nothing is spawned
\* and no builtin is invoked for it.
C19_DanglingRedirectIsError ==
    (/\ pc \in {"Spawning", "Waiting", "Executed"}
     /\ parts # <<>> /\ ~Contains(parts, <<PIPE>>) /\ parts[Len(parts)] = <<GT>>)
        => (pc = "Executed" /\ ~result.ok /\ processes = <<>> /\ invoked = <<>>)

\* the tokens of a statement as Shell::execute receives them
TokensOf(ps) == [i \in 1..Len(ps) |-> IF i = 1 THEN ps[1] ELSE expand_tilde(ps[i], env_HOME)]

RECURSIVE StageTokens(_)
StageTokens(pl) ==
    IF pl = <<>> THEN <<>>
    ELSE <<pl[1].cmd>> \o pl[1].args \o StageTokens(Tail(pl))

\* C20: a statement with a `|` token that is executed is executed as a pipeline only: no
\* redirect target is taken, no child writes to a redirect file, and every token other
\* than `|`, `>` and the token after it included, goes to its stage in order.
C20_PipeTokenMeansPipelineOnly ==
    (/\ pc \in {"Spawning", "Waiting", "Executed"}
     /\ parts # <<>> /\ Contains(parts, <<PIPE>>))
        => /\ mode = "pipeline" /\ redirect = <<>>
           /\ \A i \in 1..Len(processes) : processes[i].stdout # -1
           /\ StageTokens(pipeline) = SelectSeq(TokensOf(parts), LAMBDA t : t # <<PIPE>>)

C20_Witness ==
    /\ pc = "Waiting" /\ Len(pipeline) = 2 /\ Len(processes) = 2
    /\ pipeline[2] = Stage(W_cat, <<<<GT>>, W_f>>)

\* the statement being executed has been handed to Shell::execute
InExecute == pc \in {"Spawning", "Waiting", "Executed"} /\ parts # <<>>

\* index of the first `>` token of toks when a token follows it, else 0
FirstTarget(toks) ==
    LET gts == {i \in 1..Len(toks) : toks[i] = <<GT>>}
        first == CHOOSE i \in gts : \A j \in gts : i <= j
    IN  IF gts # {} /\ first < Len(toks) THEN first ELSE 0

\* C21: in a statement without `|` that has a `>` followed by a token, the first `>`
\* counts: the command is the first token, the arguments are the tokens between the
\* command and that `>`, the target is the token right after it.
C21_RedirectSplitsAtFirstGT ==
    (InExecute /\ ~Contains(parts, <<PIPE>>) /\ FirstTarget(TokensOf(parts)) # 0) =>
        LET toks == TokensOf(parts)
            p == FirstTarget(toks)
        IN  /\ mode = "redirect"
            /\ \/ result.tag = "OpenRedirect"
               \/ /\ pipeline = <<Stage(toks[1], SubSeq(toks, 2, p - 1))>>
                  /\ redirect = trim(toks[p + 1])

\* `cat > > f`: the target is the token after the first `>`
C21_Witness ==
    /\ pc = "Waiting" /\ parts = <<W_cat, <<GT>>, <<GT>>, W_f>>
    /\ pipeline = <<Stage(W_cat, <<>>)>> /\ redirect = <<GT>>

\* C22: no stage has an empty command name; the stages are the non-empty runs of tokens
\* between `|` tokens, in order; a statement of `|` tokens only gives the empty
\* pipeline, which returns Ok and spawns nothing.
C22_StagesAreNonEmptyRuns ==
    (InExecute /\ Contains(parts, <<PIPE>>)) =>
        LET runs == SelectNonEmpty(split(TokensOf(parts), <<PIPE>>))
        IN  /\ \A i \in 1..Len(pipeline) : pipeline[i].cmd \notin {<<>>, <<PIPE>>}
            /\ pipeline = [i \in 1..Len(runs) |-> StageOf(runs[i])]
            /\ runs = <<>> => (processes = <<>> /\ pc # "Waiting")
            /\ (runs = <<>> /\ pc = "Executed") => result = Ok

\* `cat | | cat`: the doubled pipe gives no stage
C22_Witness ==
    /\ pc = "Waiting" /\ parts = <<W_cat, <<PIPE>>, <<PIPE>>, W_cat>>
    /\ Len(pipeline) = 2 /\ Len(processes) = 2

\* C23: a statement with a `|` token, or with a `>` token followed by a target, never
\* runs a builtin handler, whatever its command names: it goes to the orchestrator.
C23_OperatorsBypassBuiltins ==
    (InExecute /\ (Contains(parts, <<PIPE>>) \/ FirstTarget(TokensOf(parts)) # 0)) =>
        /\ invoked = <<>>
        /\ mode \in {"pipeline", "redirect"}
        /\ \A i \in 1..Len(processes) : processes[i].cmd \in Executables

\* `echo > f` runs the program echo, not the builtin
C23_Witness ==
    /\ parts = <<W_echo, <<GT>>, W_f>> /\ mode = "redirect"
    /\ processes # <<>> /\ processes[1].cmd = W_echo /\ invoked = <<>>

\* a statement with neither `|` nor `>` among its tokens
Plain(ps) == ~Contains(ps, <<PIPE>>) /\ ~Contains(ps, <<GT>>)

\* C24 as stated: for a plain statement, a builtin name means its handler has run and
\* nothing is spawned; any other name means no handler and one spawn attempted.
C24_BuiltinOrExternalExactlyOne ==
    (InExecute /\ Plain(parts)) =>
        IF parts[1] \in Builtins
        THEN invoked = parts[1] /\ mode = "builtin" /\ processes = <<>>
        ELSE invoked = <<>> /\ mode = "external" /\ pipeline = <<Stage(parts[1], Tail(TokensOf(parts)))>>

\* C24, amended: for a plain statement handed to the dispatcher, a builtin name whose
\* arguments parse as flags means the handler has run once and nothing is spawned; a
\* builtin name whose arguments do not parse means neither a handler nor a spawn, and
\* the flag error; any other name means no handler and exactly one spawn attempted.
C24_BuiltinUnlessFlagError ==
    (InExecute /\ Plain(parts)) =>
        IF parts[1] \in Builtins
        THEN /\ mode = "builtin" /\ processes = <<>> /\ pipeline = <<>> /\ pc = "Executed"
             /\ IF Flags_new(Tail(TokensOf(parts))).tag = "Ok"
                THEN invoked = parts[1]
                ELSE invoked = <<>> /\ result.tag = Flags_new(Tail(TokensOf(parts))).tag
        ELSE /\ invoked = <<>> /\ mode = "external"
             /\ pipeline = <<Stage(parts[1], Tail(TokensOf(parts)))>>
             /\ Len(processes) <= 1
             /\ pc = "Executed" => (processes # <<>> \/ result.tag = "CommandNotFound")

\* `echo -a -a`: the flag error, no handler, no process
C24_Witness ==
    /\ pc = "Executed" /\ parts = <<W_echo, W_flag, W_flag>>
    /\ result.tag = "DuplicateFlag" /\ invoked = <<>> /\ processes = <<>>

\* C25: when execute_redirect has succeeded the target exists and holds what the
\* command wrote and nothing of what was there before, and nothing went to the terminal.
C25_TargetHoldsExactlyTheOutput ==
    (pc = "Executed" /\ mode = "redirect" /\ result.ok) =>
        /\ redirect \in DOMAIN files
        /\ \A k \in 1..Len(files[redirect]) : files[redirect][k] = "out"
        /\ Len(files[redirect]) <= workload[1]
        /\ terminal = 0
        /\ processes[1].stdout = -1

\* the command wrote MaxOut units into the target f
C25_Witness ==
    /\ pc = "Executed" /\ mode = "redirect" /\ result.ok
    /\ redirect = W_f /\ Len(files[W_f]) = MaxOut

\* C26: when the target cannot be opened, execute_redirect returns the error, nothing is
\* spawned and the file system is left as it was.
C26_OpenFailureSpawnsNothing ==
    [][(result'.tag = "OpenRedirect" /\ result.tag # "OpenRedirect") =>
          /\ pc' = "Executed" /\ ~result'.ok
          /\ processes' = <<>>
          /\ files' = files]_vars

\* the error has been printed, no process ever existed
C26_Witness ==
    /\ pc = "Executed" /\ result.tag = "OpenRedirect" /\ parts = <<W_cat, <<GT>>, W_f>>
    /\ processes = <<>>

\* the step of run that tokenizes the statement at the head of input
TokenizeStep == pc = "Dispatching" /\ input' = Tail(input) /\ parts' # <<>>

\* position i of s lies after an odd number of quote characters
Quoted(s, i) == Cardinality({j \in 1..(i - 1) : s[j] = QUOTE}) % 2 = 1

\* s without its quote characters, each space outside quotes replaced by a line feed
Unquoted(s) ==
    LET keep == SelectSeq([i \in 1..Len(s) |-> i], LAMBDA i : s[i] # QUOTE)
    IN  [k \in 1..Len(keep) |->
            IF s[keep[k]] = SPACE /\ ~Quoted(s, keep[k]) THEN "\n" ELSE s[keep[k]]]

\* C27: no token contains a quote character, and the tokens are the non-empty pieces
\* between the spaces outside quotes, so a space between quotes never splits a token.
C27_QuotesToggleAndAreElided ==
    [][TokenizeStep =>
          /\ \A k \in 1..Len(parts') : ~Contains(parts'[k], QUOTE)
          /\ parts' = SelectNonEmpty(split(Unquoted(Head(input)), "\n"))]_vars

\* `"a a"` gave the one token `a a`
C27_Witness ==
    /\ line = <<QUOTE, "a", SPACE, "a", QUOTE>>
    /\ parts = <<<<"a", SPACE, "a">>>>

\* the number of whitespace characters of s at the positions in P
CountWhitespace(s, P) == Cardinality({i \in P : IsWhitespace(s[i])})

RECURSIVE Concat(_)
Concat(ss) == IF ss = <<>> THEN <<>> ELSE ss[1] \o Concat(Tail(ss))

\* C28: outside quotes every run of whitespace, spaces and tabs, separates tokens: the
\* only whitespace inside tokens is the whitespace between quotes, and no token is empty.
C28_WhitespaceOutsideQuotesSeparates ==
    [][TokenizeStep =>
          LET s == Head(input)
              all == Concat(parts')
          IN  /\ \A k \in 1..Len(parts') : parts'[k] # <<>>
              /\ CountWhitespace(all, 1..Len(all)) =
                     CountWhitespace(s, {i \in 1..Len(s) : Quoted(s, i)})]_vars

\* the text of s after its last quote character
AfterLastQuote(s) ==
    LET q == {i \in 1..Len(s) : s[i] = QUOTE}
        last == CHOOSE i \in q : \A j \in q : j <= i
    IN  SubSeq(s, last + 1, Len(s))

\* C29: a statement with an odd number of quotes is tokenized and dispatched like any
\* other: taking its command name does not fail, and the text after the last quote,
\* spaces included, ends the final token.
C29_UnterminatedQuoteDispatched ==
    [][(/\ pc = "Dispatching" /\ input' = Tail(input)
        /\ Cardinality({i \in 1..Len(Head(input)) : Head(input)[i] = QUOTE}) % 2 = 1) =>
          /\ pc' # "Panicked"
          /\ parts' # <<>>
          /\ LET rest == AfterLastQuote(Head(input))
                 final == parts'[Len(parts')]
             IN  rest # <<>> =>
                    (/\ Len(final) >= Len(rest)
                     /\ SubSeq(final, Len(final) - Len(rest) + 1, Len(final)) = rest)]_vars

\* no quote, no leading or trailing space, no two spaces in a row
SingleSpaced(s) ==
    /\ ~Contains(s, QUOTE)
    /\ s # <<>> => (s[1] # SPACE /\ s[Len(s)] # SPACE)
    /\ \A i \in 1..(Len(s) - 1) : ~(s[i] = SPACE /\ s[i + 1] = SPACE)

\* C30: the tokens of a statement without quotes whose words are separated by single
\* spaces, joined with single spaces, are the statement.
C30_JoinOfTokensIsTheLine ==
    [][(pc = "Dispatching" /\ input' = Tail(input) /\ SingleSpaced(Head(input))) =>
          Join(parts', <<SPACE>>) = Head(input)]_vars

C30_Witness ==
    /\ line = <<"a", SPACE, "a", SPACE, "a">>
    /\ parts = <<<<"a">>, <<"a">>, <<"a">>>>

\* the step of read_input that splits the line typed
SplitStep == pc = "Typed" /\ pc' # "Typed"

\* the line up to its first `#`
StripComment(l) ==
    LET hs == {i \in 1..Len(l) : l[i] = HASH}
    IN  IF hs = {} THEN l ELSE SubSeq(l, 1, (CHOOSE i \in hs : \A j \in hs : i <= j) - 1)

\* the pieces of b between its `;` characters, from cut c on (0 is before the start)
RECURSIVE FragmentsFrom(_, _)
FragmentsFrom(b, c) ==
    IF c > Len(b) THEN <<>>
    ELSE LET cuts == {i \in (c + 1)..Len(b) : b[i] = SEMI} \cup {Len(b) + 1}
             n == CHOOSE i \in cuts : \A j \in cuts : i <= j
         IN  <<SubSeq(b, c + 1, n - 1)>> \o FragmentsFrom(b, n)

\* f without the whitespace at its ends
RECURSIVE Strip(_)
Strip(f) ==
    IF f = <<>> THEN f
    ELSE IF IsWhitespace(f[1]) THEN Strip(Tail(f))
    ELSE IF IsWhitespace(f[Len(f)]) THEN Strip(SubSeq(f, 1, Len(f) - 1))
    ELSE f

\* C31: the statements are, in order, the `;`-separated fragments of the line without
\* its comment that hold more than whitespace, each without the whitespace at its
\* ends; none is empty; there is none iff there is no such fragment.
C31_StatementsAreTrimmedFragments ==
    [][SplitStep =>
          LET frags == FragmentsFrom(StripComment(line), 0)
              kept == SelectSeq(frags, LAMBDA f : \E i \in 1..Len(f) : ~IsWhitespace(f[i]))
          IN  /\ input' = [k \in 1..Len(kept) |-> Strip(kept[k])]
              /\ \A k \in 1..Len(input') :
                    /\ input'[k] # <<>>
                    /\ ~IsWhitespace(input'[k][1])
                    /\ ~IsWhitespace(input'[k][Len(input'[k])])
              /\ (input' = <<>>) = (kept = <<>>)]_vars

\* ` a; ;a` gave the two statements `a` and `a`
C31_Witness ==
    /\ line = <<SPACE, "a", SEMI, SEMI, "a">>
    /\ pc = "Dispatching" /\ input = <<<<"a">>, <<"a">>>>

\* C32: the line is cut at its first `#`, between quotes or not: the statements are
\* those of the text before it, and none contains a `#`.
C32_CommentStartsAtFirstHash ==
    [][SplitStep =>
          /\ input' = transform_input(StripComment(line))
          /\ \A k \in 1..Len(input') : ~Contains(input'[k], HASH)]_vars

\* `"a#a"` gave the statement `"a`
C32_Witness ==
    /\ line = <<QUOTE, "a", HASH, "a", QUOTE>>
    /\ pc = "Dispatching" /\ input = <<<<QUOTE, "a">>>>

(***************************************************************************)
(* Flags.                                                                  *)
(***************************************************************************)
\* the characters after the leading `-` of the arguments that begin with `-`
DashChars(args) ==
    UNION {{args[i][k] : k \in 2..Len(args[i])} :
              i \in {n \in 1..Len(args) : args[n] # <<>> /\ args[n][1] = "-"}}

\* the spaced form of args: one argument `-c` for each flag character
RECURSIVE Spaced(_)
Spaced(args) ==
    IF args = <<>> THEN <<>>
    ELSE LET a == Head(args)
         IN  (IF a # <<>> /\ a[1] = "-"
              THEN [k \in 1..(Len(a) - 1) |-> <<"-", a[k + 1]>>]
              ELSE <<a>>) \o Spaced(Tail(args))

\* Flags::new has returned a Flags object
NewStep == pc = "FlagsCall" /\ pc' = "Flags" /\ value_flags = {}

\* C34: when Flags::new succeeds, has_flag(c) holds exactly for the characters c that
\* come after the leading `-` of an argument beginning with `-`; the spaced form of
\* the arguments parses to the same flag set, and the other arguments give no flag.
C34_FlagsAreTheDashCharacters ==
    [][NewStep =>
          /\ \A c \in FlagChars \cup {"v", "-"} :
                has_flag(Flags', c) <=> c \in DashChars(parts)
          /\ Flags_new(Spaced(parts)).tag = "Ok"
          /\ Flags_new(Spaced(parts)).flags = Flags'.flags]_vars

\* `-ab v` has been parsed: a and b are flags, v is not
C34_Witness ==
    /\ pc = "Flags" /\ value_flags = {}
    /\ parts = <<<<"-", "a", "b">>, <<"v">>>>
    /\ Flags.flags = {"a", "b"}

\* C37: whatever is done to a Flags object, every flag with a value is in the flag
\* set; remove_flag(c) leaves has_flag(c) false and get_value(c) None; clear leaves
\* the flag set empty and len() 0.
C37_ValuesBelongToFlags ==
    [][/\ DOMAIN Flags'.values \subseteq Flags'.flags
       /\ \A c \in FlagChars :
             remove_flag(c) => (~has_flag(Flags', c) /\ get_value(Flags', c) = <<>>)
       /\ clear => (Flags'.flags = {} /\ len(Flags') = 0)]_vars

\* `-ab` was parsed, b has been removed and a has been given a value
C37_Witness ==
    /\ pc = "Flags"
    /\ parts = <<<<"-", "a", "b">>>>
    /\ Flags.flags = {"a"}
    /\ get_value(Flags, "a") = <<<<"v">>>>

(***************************************************************************)
(* The registry.                                                           *)
(***************************************************************************)
\* C33: the registry knows exactly echo, cd, ls, pwd, history and type; a plain
\* statement goes on to the external path, no handler having run, exactly when its
\* name is none of the six (the empty name is none of them), and the registry
\* answers Ok(true) only when the handler under that name has run.
C33_RegistryKnowsSixNames ==
    /\ Builtins = {W_echo, W_cd, W_ls, W_pwd, W_history, W_type}
    /\ Cardinality(Builtins) = 6
    /\ LET r == registry_execute(<<>>, <<>>, env_HOME, os_cwd)
       IN  ~r.hit /\ ~r.invoked /\ r.result = Ok
    /\ (InExecute /\ Plain(parts)) =>
          /\ (mode = "external") <=> (parts[1] \notin {W_echo, W_cd, W_ls, W_pwd, W_history, W_type})
          /\ mode = "external" => invoked = <<>>
          /\ mode \in {"external", "builtin"}
          /\ (mode = "builtin" /\ result.ok) => invoked = parts[1]

\* `type -a` has run the handler of type
C33_Witness ==
    /\ pc = "Executed" /\ parts = <<W_type, W_flag>>
    /\ mode = "builtin" /\ invoked = W_type /\ result.ok

\* the first argument of args that flag parsing stumbles on: a bare `-`, or a
\* `-`-argument with a character that an earlier `-`-argument or an earlier position
\* of the same argument has already; 0 when there is none
Dash(a) == a # <<>> /\ a[1] = "-"
Repeats(args, i) ==
    /\ Dash(args[i])
    /\ \E k \in 2..Len(args[i]) :
          \/ \E m \in 2..(k - 1) : args[i][m] = args[i][k]
          \/ \E j \in 1..(i - 1) : Dash(args[j]) /\ \E m \in 2..Len(args[j]) : args[j][m] = args[i][k]
FirstFault(args) ==
    LET bad == {i \in 1..Len(args) : args[i] = <<"-">> \/ Repeats(args, i)}
    IN  IF bad = {} THEN 0 ELSE CHOOSE i \in bad : \A j \in bad : i <= j

\* C35: a builtin whose arguments have a flag character twice among the `-`-arguments
\* fails with DuplicateFlag, one whose arguments have a bare `-` with InvalidFormat
\* (the first such argument decides); the error is the result of the statement, no
\* handler has run and no process is spawned.
C35_FlagErrorStopsTheBuiltin ==
    (InExecute /\ Plain(parts) /\ parts[1] \in Builtins) =>
        LET args == Tail(TokensOf(parts))
            i == FirstFault(args)
        IN  IF i = 0
            THEN invoked = parts[1] /\ result.tag \notin {"DuplicateFlag", "InvalidFormat"}
            ELSE /\ result.tag = IF args[i] = <<"-">> THEN "InvalidFormat" ELSE "DuplicateFlag"
                 /\ ~result.ok
                 /\ invoked = <<>> /\ mode = "builtin"
                 /\ processes = <<>> /\ pipeline = <<>> /\ pc = "Executed"

\* `cd -ab -a`: DuplicateFlag, the working directory is where it was
C35_Witness ==
    /\ pc = "Executed" /\ parts = <<W_cd, <<"-", "a", "b">>, W_flag>>
    /\ result.tag = "DuplicateFlag" /\ invoked = <<>> /\ os_cwd = StartDir

\* C36: each time a statement reaches the registry a new Command Context is made: its
\* history is the history log as it is then, the line being executed its newest
\* entry, and its builtin names are the registered names; it is gone when the
\* statement is over.
C36_ContextIsSnapshotAtDispatch ==
    [][/\ (pc = "Dispatching" /\ mode' \in {"builtin", "external"}) =>
             /\ context'.history = history
             /\ history # <<>> /\ history[Len(history)] = line
             /\ context'.builtins = {W_echo, W_cd, W_ls, W_pwd, W_history, W_type}
       /\ invoked' # <<>> => (context'.history = history' /\ invoked' \in context'.builtins)
       /\ pc' \in {"Reading", "Dispatching"} => context' = NoContext]_vars

\* `cd /` is the second line of the session: the handler is given both lines
C36_Witness ==
    /\ pc = "Executed" /\ invoked = W_cd
    /\ Len(context.history) = 2 /\ context.history[2] = Sp(<<W_cd, RootDir>>)
    /\ context.history[1] # context.history[2]

(***************************************************************************)
(* Redirects, quoted operators, tilde expansion.                           *)
(***************************************************************************)
\* C38: execute_redirect has opened the target when it tries to spawn: when the spawn
\* fails the statement ends with that error, no child, and the target in existence
\* and empty, whatever it held before.
C38_TargetEmptiedThoughSpawnFails ==
    [][/\ (pc = "Spawning" /\ mode = "redirect") =>
             /\ redirect \in DOMAIN files /\ files[redirect] = <<>>
             /\ pc' = "Executed" => (result'.tag = "NotFound" /\ files' = files)
       /\ (mode' = "redirect" /\ pc' = "Executed" /\ result'.tag = "NotFound") =>
             /\ ~result'.ok /\ processes' = <<>>
             /\ redirect' \in DOMAIN files' /\ files'[redirect'] = <<>>]_vars

\* `f > f`: there is no program f, and the file f is there, empty
C38_Witness ==
    /\ pc = "Executed" /\ parts = <<W_f, <<GT>>, W_f>>
    /\ mode = "redirect" /\ result.tag = "NotFound" /\ processes = <<>>
    /\ W_f \in DOMAIN files /\ files[W_f] = <<>>

\* the words of a statement as typed, and as they are without their quotes and with
\* the home directory for a leading `~` of every word but the first
Words == split(line, SPACE)
Bare(w) == SelectSeq(w, LAMBDA c : c # QUOTE)
Scanned ==
    [i \in 1..Len(Words) |->
        LET w == Bare(Words[i])
        IN  IF i > 1 /\ w # <<>> /\ w[1] = TILDE /\ env_HOME # <<>>
            THEN env_HOME \o Tail(w) ELSE w]

\* the number of runs of words other than `|`
Runs(ws) ==
    Cardinality({i \in 1..Len(ws) : ws[i] # <<PIPE>> /\ (i = 1 \/ ws[i - 1] = <<PIPE>>)})

\* C39: a quoted operator counts as the operator: a statement with a word `"|"` is
\* executed as a pipeline whose stages are the runs of words between the `|`, quoted
\* or not; a statement without `|` with a word `">"` that has a word after it is
\* executed as a redirect to the word after the first `>`.
C39_QuotedOperatorIsAnOperator ==
    InExecute =>
        /\ Contains(Words, Quote(<<PIPE>>)) =>
              /\ mode = "pipeline" /\ redirect = <<>>
              /\ Len(pipeline) = Runs(Scanned)
              /\ StageTokens(pipeline) = SelectSeq(Scanned, LAMBDA w : w # <<PIPE>>)
        /\ (/\ ~Contains(Scanned, <<PIPE>>)
            /\ \E i \in 1..(Len(Words) - 1) : Words[i] = Quote(<<GT>>)) =>
              /\ mode = "redirect"
              /\ \/ result.tag = "OpenRedirect"
                 \/ /\ redirect = Scanned[FirstTarget(Scanned) + 1]
                    /\ pipeline = <<Stage(Scanned[1], SubSeq(Scanned, 2, FirstTarget(Scanned) - 1))>>

\* `cat "|" cat` runs as two stages
C39_Witness ==
    /\ line = Sp(<<W_cat, Quote(<<PIPE>>), W_cat>>)
    /\ pc = "Waiting" /\ mode = "pipeline" /\ Len(processes) = 2
    /\ processes[1].stdout = 1 /\ processes[2].stdin = 1

\* the tokens of the statement with the home directory in place of the leading `~`
\* of every token but the first, when HOME is set
Expanded ==
    [i \in 1..Len(parts) |->
        IF i > 1 /\ parts[i][1] = TILDE /\ env_HOME # <<>>
        THEN env_HOME \o Tail(parts[i]) ELSE parts[i]]

\* C40: what the operators are looked for in, and what the stages, the command, its
\* arguments and the redirect target are taken from, is the tokens with, for each
\* token but the first that begins with `~`, the value of HOME in place of that `~`
\* and of nothing else; the first token is the command name as typed.
C40_TildeExpandedBeforeScanning ==
    InExecute =>
        /\ mode = "pipeline" <=> Contains(Expanded, <<PIPE>>)
        /\ mode = "pipeline" =>
              StageTokens(pipeline) = SelectSeq(Expanded, LAMBDA t : t # <<PIPE>>)
        /\ (mode = "redirect" /\ result.tag # "OpenRedirect") =>
              /\ FirstTarget(Expanded) # 0
              /\ redirect = Expanded[FirstTarget(Expanded) + 1]
              /\ pipeline = <<Stage(parts[1], SubSeq(Expanded, 2, FirstTarget(Expanded) - 1))>>
        /\ mode = "external" => pipeline = <<Stage(parts[1], Tail(Expanded))>>

\* `~~ "|" ~~` with HOME set: the second stage is named by the home directory and `~`,
\* the first by `~~`
C40_Witness ==
    /\ line = Sp(<<W_tilde, Quote(<<PIPE>>), W_tilde>>) /\ env_HOME = HomeDir
    /\ pc = "Executed" /\ mode = "pipeline"
    /\ pipeline = <<Stage(W_tilde, <<>>), Stage(HomeDir \o <<TILDE>>, <<>>)>>

====
